---- MODULE Spec2Model ----
(***************************************************************************)
(* Model of solve_mpmiqp_enumeration                                       *)
(* (src/src/ppopt/mp_solvers/mpmiqp_enumeration.py).                       *)
(*                                                                         *)
(* The function enumerates the feasible binary combinations of a           *)
(* mixed-integer multiparametric program, substitutes each into a          *)
(* continuous sub-problem, solves the sub-problems on a process pool with  *)
(* an order-preserving map, annotates and flattens the critical regions    *)
(* and either returns them flagged as overlapping or hands them to the     *)
(* 1-D overlap reducer.                                                    *)
(*                                                                         *)
(* Sequences are 1-based here; Python's index i is i+1 in the model.       *)
(* Floating point magnitudes of H are integers in units of 1e-9.           *)
(***************************************************************************)
EXTENDS Integers, Sequences, FiniteSets

\* ------------------------------------------------------------- bounds
\* at most this many full leaves (feasible binary combinations)
MaxLeaves == 2
\* a continuous solve returns at most this many critical regions
MaxRegions == 2
\* worker counts 1..MaxCores, for the caller and for num_cpu_cores()
MaxCores == 2
\* the 1-D reducer removes at most this many regions of its input
MaxDropped == 1

\* ---------------------------------------------------------- constants
\* numpy.isclose(a, 0) is |a| <= atol, atol = 1e-8 = 10 units of 1e-9
Atol == 10
\* the sentinel of the num_cores parameter
AutoCores == -1

\* an attribute that is not set yet; no assignment and no index list equals it
Unset == <<-1>>

VARIABLES
  pc,                    \* position in solve_mpmiqp_enumeration
  program,               \* the program argument (read only)
  cores_arg,             \* the num_cores argument as passed
  reduce_overlap,        \* the reduce_overlap argument
  num_cores,             \* the local num_cores (line 31-32)
  feasible_combinations, \* line 38
  problems,              \* line 41
  status,                \* per task of pool.map: pending/running/hung/done/failed
  attempts,              \* per task: how many times a worker took it
  results,               \* the result list pool.map is building
  sols,                  \* line 45
  index,                 \* the loop variable of line 49 (1-based)
  region_list,           \* line 48
  collected_regions,     \* line 57 (and line 68)
  flat,                  \* the value line 57 computed, kept for reference
  reducer,               \* calls of reduce_overlapping_critical_regions_1d
  result,                \* <<>>, and <<the Solution>> once it is returned
  solved,                \* per returned task: how many regions its solve returned
  out_of_order           \* a task returned while an earlier one had not

vars == <<pc, program, cores_arg, reduce_overlap, num_cores,
          feasible_combinations, problems, status, attempts, results, sols,
          index, region_list, collected_regions, flat, reducer, result,
          solved, out_of_order>>

\* what the function itself never writes
observed == <<solved, out_of_order>>

\* ------------------------------------------------------------ helpers
Range(s) == {s[i] : i \in 1..Len(s)}

Abs(x) == IF x < 0 THEN -x ELSE x

RECURSIVE SumSeq(_)
SumSeq(s) == IF s = <<>> THEN 0 ELSE Head(s) + SumSeq(Tail(s))

\* a set of naturals as the ascending sequence of its elements
RECURSIVE SortedSeq(_)
SortedSeq(S) ==
  IF S = {} THEN <<>>
  ELSE LET m == CHOOSE x \in S : \A y \in S : x <= y
       IN  <<m>> \o SortedSeq(S \ {m})

\* lexicographic order on equal-length 0/1 sequences
RECURSIVE LexLess(_, _)
LexLess(a, b) ==
  /\ a # <<>>
  /\ \/ Head(a) < Head(b)
     \/ Head(a) = Head(b) /\ LexLess(Tail(a), Tail(b))

RECURSIVE SortedAssignments(_)
SortedAssignments(S) ==
  IF S = {} THEN <<>>
  ELSE LET m == CHOOSE x \in S : \A y \in S \ {x} : LexLess(x, y)
       IN  <<m>> \o SortedAssignments(S \ {m})

\* ------------------------------------------------- the program argument
\* MPMILP_Program keeps cont_indices as the variable indices that are not
\* binary, in ascending order.
ContIndices(num_x, binary_indices) ==
  SortedSeq((1..num_x) \ Range(binary_indices))

\* the variable layouts drawn for the program: binaries first, binaries last
Layouts ==
  { [num_x |-> 3, binary_indices |-> <<1>>],
    [num_x |-> 3, binary_indices |-> <<2, 3>>] }

\* every 0/1 assignment of n binary variables
Assignments(n) == [1..n -> {0, 1}]

\* MITree(program, depth=0).get_full_leafs(): the feasible complete
\* assignments, each fixing every binary variable, distinct, in tree order.
LeafSequences(n) ==
  { SortedAssignments(S) :
      S \in {T \in SUBSET Assignments(n) : Cardinality(T) <= MaxLeaves} }

\* a num_x by num_t matrix, zero except for entry (v, 1)
OneEntry(num_x, num_t, v, val) ==
  [i \in 1..num_x |->
     [j \in 1..num_t |-> IF i = v /\ j = 1 THEN val ELSE 0]]

\* the matrices H drawn for a layout: zero; a continuous row entry that is
\* nonzero but within the tolerance; a continuous row entry of 0.5
\* (500000000 units); a binary row entry of 0.5 with the continuous rows zero
HChoices(num_x, num_t, binary_indices) ==
  LET c == ContIndices(num_x, binary_indices)[1]
      b == binary_indices[1]
  IN  { OneEntry(num_x, num_t, c, 0),
        OneEntry(num_x, num_t, c, -4),
        OneEntry(num_x, num_t, c, 500000000),
        OneEntry(num_x, num_t, b, 500000000) }

ProgramsOf(l, t) ==
  { [num_x |-> l.num_x,
     binary_indices |-> l.binary_indices,
     cont_indices |-> ContIndices(l.num_x, l.binary_indices),
     num_t |-> t, hasQ |-> q, H |-> h, leaves |-> lv] :
      q \in BOOLEAN,
      h \in HChoices(l.num_x, t, l.binary_indices),
      lv \in LeafSequences(Len(l.binary_indices)) }

\* parameter dimensions drawn: 1 and 2
Programs == UNION {ProgramsOf(l, t) : l \in Layouts, t \in {1, 2}}

Init ==
  /\ program \in Programs
  /\ cores_arg \in {AutoCores} \cup (1..MaxCores)
  /\ reduce_overlap \in BOOLEAN
  /\ pc = "start"
  /\ num_cores = cores_arg
  /\ feasible_combinations = <<>>
  /\ problems = <<>>
  /\ status = <<>>
  /\ attempts = <<>>
  /\ results = <<>>
  /\ sols = <<>>
  /\ index = 0
  /\ region_list = <<>>
  /\ collected_regions = <<>>
  /\ flat = <<>>
  /\ reducer = <<>>
  /\ result = <<>>
  /\ solved = <<>>
  /\ out_of_order = FALSE

\* ------------------------------------------------------ collaborators
\* tree.get_full_leafs(), each leaf's fixed_bins (line 38)
FullLeafFixedBins(p) == p.leaves

\* program.generate_substituted_problem(fixed_bins): the continuous program
\* with the binaries fixed to fixed_bins
GenerateSubstitutedProblem(p, fixed_bins) == [fixed_bins |-> fixed_bins]

\* solve_mpqp(problem, cont_algorithm) returning r critical regions, not yet
\* annotated. sub and k identify the region object (the k-th region of the
\* solution of task sub), fixed is the assignment substituted into the
\* problem that was solved, writes counts the annotations of the object.
SolveMpqp(problem, sub, r) ==
  [k \in 1..r |->
     [sub |-> sub, fixed |-> problem.fixed_bins, k |-> k,
      y_fixation |-> Unset, y_indices |-> Unset, x_indices |-> Unset,
      writes |-> 0]]

\* s without the positions in D
RECURSIVE Without(_, _, _)
Without(s, D, i) ==
  IF i > Len(s) THEN <<>>
  ELSE (IF i \in D THEN <<>> ELSE <<s[i]>>) \o Without(s, D, i + 1)

\* reduce_overlapping_critical_regions_1d(program, regions): the possible
\* (deduplicated list, overlaps_remaining) pairs. The list is the input
\* with some regions removed; overlaps can remain only among two or more.
ReduceOutcomes(regions) ==
  UNION { { [regions |-> Without(regions, D, 1), overlaps_remaining |-> f] :
              f \in (IF Len(regions) - Cardinality(D) < 2
                       THEN {FALSE} ELSE BOOLEAN) } :
          D \in {E \in SUBSET (1..Len(regions)) :
                   Cardinality(E) <= MaxDropped} }

\* Solution(program, regions, is_overlapping)
Solution(p, regions, is_overlapping) ==
  [program |-> p, critical_regions |-> regions,
   is_overlapping |-> is_overlapping]

\* --------------------------------------------------------- the pool
Tasks == 1..Len(status)

Busy == {i \in Tasks : status[i] \in {"running", "hung"}}

\* a map that files results in the order the workers return them
StoreInCompletionOrder(res, i, sol) ==
  [res EXCEPT ![Cardinality({j \in Tasks : status[j] = "done"}) + 1] = sol]

\* pool.map puts the result of task i at position i of its result list
StoreResult(res, i, sol) == [res EXCEPT ![i] = sol]

\* a map that returns as soon as one task has returned
FirstSolved == \E i \in Tasks : status[i] = "done"

\* a map that gives up on the tasks that do not return
NoneRunning == \A i \in Tasks : status[i] \in {"done", "hung"}

\* list(pool.map(...)) returns once every task has returned
AllSolved == \A i \in Tasks : status[i] = "done"

\* pool.map raises the exception of a task that raised
SomeFailed == \E i \in Tasks : status[i] = "failed"

\* --------------------------------------------------------- annotation
\* an annotation that writes the binary indices into both index fields
AnnotateSameIndices(region, fixation, p) ==
  [region EXCEPT !.y_fixation = fixation,
                 !.y_indices = p.binary_indices,
                 !.x_indices = p.binary_indices,
                 !.writes = @ + 1]

\* lines 52-54 on one critical region
Annotate(region, fixation, p) ==
  [region EXCEPT !.y_fixation = fixation,
                 !.y_indices = p.binary_indices,
                 !.x_indices = p.cont_indices,
                 !.writes = @ + 1]

\* lines 50-54 on the critical regions of one solution
AnnotateAll(sol, fixation, p) ==
  [i \in 1..Len(sol) |-> Annotate(sol[i], fixation, p)]

\* a flattening that puts the later sublists first
RECURSIVE FlattenReversed(_)
FlattenReversed(lists) ==
  IF lists = <<>> THEN <<>> ELSE FlattenReversed(Tail(lists)) \o Head(lists)

\* line 57: [item for sublist in region_list for item in sublist]
RECURSIVE Flatten(_)
Flatten(lists) ==
  IF lists = <<>> THEN <<>> ELSE Head(lists) \o Flatten(Tail(lists))

\* ------------------------------------------------------ classification
\* line 59: numpy.sum(numpy.abs(program.H[program.cont_indices, :]))
SumAbsH(p) ==
  SumSeq([i \in 1..Len(p.cont_indices) |->
            SumSeq([j \in 1..p.num_t |-> Abs(p.H[p.cont_indices[i]][j])])])

\* numpy.isclose(a, 0): |a - 0| <= atol + rtol * |0|
IsCloseToZero(a) == Abs(a) <= Atol

\* line 60
IsBilinearTerms(p) == ~IsCloseToZero(SumAbsH(p))

\* a guard that needs dimension and quadratic term together
OverlappingConjoined(p, reduce) ==
  (p.num_t > 1 /\ p.hasQ) \/ ~reduce \/ IsBilinearTerms(p)

\* a guard that does not look at the parameter dimension
OverlappingAnyDimension(p, reduce) ==
  p.hasQ \/ ~reduce \/ IsBilinearTerms(p)

\* line 62
Overlapping(p, reduce) ==
  p.num_t > 1 \/ p.hasQ \/ ~reduce \/ IsBilinearTerms(p)

\* a reduced return that states there is no overlap left
ReducedSolutionNeverOverlapping(p, out) ==
  Solution(p, out.regions, FALSE)

\* line 69
ReducedSolution(p, out) ==
  Solution(p, out.regions, out.overlaps_remaining)

\* ------------------------------------------------------------ actions
\* a start that leaves the sentinel in num_cores
ResolveCoresKeepsSentinel ==
  /\ pc = "start"
  /\ pc' = "tree"
  /\ UNCHANGED <<observed, program, cores_arg, reduce_overlap, num_cores,
                 feasible_combinations, problems, status, attempts, results,
                 sols, index, region_list, collected_regions, flat, reducer,
                 result>>

\* lines 31-32
ResolveCores ==
  /\ pc = "start"
  /\ IF num_cores = AutoCores
       THEN \E n \in 1..MaxCores : num_cores' = n
       ELSE num_cores' = num_cores
  /\ pc' = "tree"
  /\ UNCHANGED <<observed, program, cores_arg, reduce_overlap, feasible_combinations,
                 problems, status, attempts, results, sols, index,
                 region_list, collected_regions, flat, reducer, result>>

\* lines 35-38
Enumerate ==
  /\ pc = "tree"
  /\ feasible_combinations' = FullLeafFixedBins(program)
  /\ pc' = "substitute"
  /\ UNCHANGED <<observed, program, cores_arg, reduce_overlap, num_cores, problems,
                 status, attempts, results, sols, index, region_list,
                 collected_regions, flat, reducer, result>>

\* line 41
Substitute ==
  /\ pc = "substitute"
  /\ problems' = [i \in 1..Len(feasible_combinations) |->
                    GenerateSubstitutedProblem(program,
                                               feasible_combinations[i])]
  /\ pc' = "pool"
  /\ UNCHANGED <<observed, program, cores_arg, reduce_overlap, num_cores,
                 feasible_combinations, status, attempts, results, sols,
                 index, region_list, collected_regions, flat, reducer, result>>

\* lines 44-45: the pool is made and pool.map submits one task per problem
Dispatch ==
  /\ pc = "pool"
  /\ status' = [i \in 1..Len(problems) |-> "pending"]
  /\ attempts' = [i \in 1..Len(problems) |-> 0]
  /\ results' = [i \in 1..Len(problems) |-> <<>>]
  /\ pc' = "map"
  /\ UNCHANGED <<observed, program, cores_arg, reduce_overlap, num_cores,
                 feasible_combinations, problems, sols, index, region_list,
                 collected_regions, flat, reducer, result>>

\* a free worker of the pool takes the next task of the queue
WorkerTake(i) ==
  /\ i \in Tasks
  /\ status[i] = "pending"
  /\ \A j \in 1..(i - 1) : status[j] # "pending"
  /\ Cardinality(Busy) < num_cores
  /\ status' = [status EXCEPT ![i] = "running"]
  /\ attempts' = [attempts EXCEPT ![i] = @ + 1]
  /\ UNCHANGED <<observed, pc, program, cores_arg, reduce_overlap, num_cores,
                 feasible_combinations, problems, results, sols, index,
                 region_list, collected_regions, flat, reducer, result>>

\* solve_mpqp returns in the worker; the pool files the solution
WorkerReturn(i) ==
  /\ i \in Tasks
  /\ status[i] = "running"
  /\ \E r \in 0..MaxRegions :
       /\ results' = StoreResult(results, i, SolveMpqp(problems[i], i, r))
       /\ solved' = [j \in DOMAIN solved \cup {i} |->
                       IF j = i THEN r ELSE solved[j]]
  /\ status' = [status EXCEPT ![i] = "done"]
  /\ out_of_order' = (out_of_order \/ \E j \in 1..(i - 1) : status[j] # "done")
  /\ UNCHANGED <<pc, program, cores_arg, reduce_overlap, num_cores,
                 feasible_combinations, problems, attempts, sols, index,
                 region_list, collected_regions, flat, reducer, result>>

\* solve_mpqp raises in the worker
WorkerRaise(i) ==
  /\ i \in Tasks
  /\ status[i] = "running"
  /\ status' = [status EXCEPT ![i] = "failed"]
  /\ UNCHANGED <<observed, pc, program, cores_arg, reduce_overlap, num_cores,
                 feasible_combinations, problems, attempts, results, sols,
                 index, region_list, collected_regions, flat, reducer, result>>

\* solve_mpqp never returns: the worker stays occupied for good
WorkerStall(i) ==
  /\ i \in Tasks
  /\ status[i] = "running"
  /\ status' = [status EXCEPT ![i] = "hung"]
  /\ UNCHANGED <<observed, pc, program, cores_arg, reduce_overlap, num_cores,
                 feasible_combinations, problems, attempts, results, sols,
                 index, region_list, collected_regions, flat, reducer, result>>

\* line 45: list(pool.map(...)) returns the result list
MapReturn ==
  /\ pc = "map"
  /\ AllSolved
  /\ sols' = results
  /\ region_list' = <<>>
  /\ index' = 1
  /\ pc' = "annotate"
  /\ UNCHANGED <<observed, program, cores_arg, reduce_overlap, num_cores,
                 feasible_combinations, problems, status, attempts, results,
                 collected_regions, flat, reducer, result>>

\* a map that drops the failed tasks and returns what the others produced
MapRaiseRecovers ==
  /\ pc = "map"
  /\ SomeFailed
  /\ \A i \in Tasks : status[i] \in {"done", "failed"}
  /\ sols' = results
  /\ region_list' = <<>>
  /\ index' = 1
  /\ pc' = "annotate"
  /\ UNCHANGED <<observed, program, cores_arg, reduce_overlap, num_cores,
                 feasible_combinations, problems, status, attempts, results,
                 collected_regions, flat, reducer, result>>

\* line 45: pool.map re-raises a worker's exception, which leaves the function
MapRaise ==
  /\ pc = "map"
  /\ SomeFailed
  /\ pc' = "failed"
  /\ UNCHANGED <<observed, program, cores_arg, reduce_overlap, num_cores,
                 feasible_combinations, problems, status, attempts, results,
                 sols, index, region_list, collected_regions, flat, reducer,
                 result>>

\* lines 49-55: one iteration of the outer loop. The regions are annotated
\* in place, so sols sees the annotation too.
AnnotateSolution ==
  /\ pc = "annotate"
  /\ index <= Len(sols)
  /\ LET done == AnnotateAll(sols[index], feasible_combinations[index],
                             program)
     IN  /\ sols' = [sols EXCEPT ![index] = done]
         /\ region_list' = Append(region_list, done)
  /\ index' = index + 1
  /\ UNCHANGED <<observed, pc, program, cores_arg, reduce_overlap, num_cores,
                 feasible_combinations, problems, status, attempts, results,
                 collected_regions, flat, reducer, result>>

\* line 57
Collect ==
  /\ pc = "annotate"
  /\ index > Len(sols)
  /\ collected_regions' = Flatten(region_list)
  /\ flat' = Flatten(region_list)
  /\ pc' = "classify"
  /\ UNCHANGED <<observed, program, cores_arg, reduce_overlap, num_cores,
                 feasible_combinations, problems, status, attempts, results,
                 sols, index, region_list, reducer, result>>

\* lines 59-64
ReturnOverlapping ==
  /\ pc = "classify"
  /\ Overlapping(program, reduce_overlap)
  /\ result' = <<Solution(program, collected_regions, TRUE)>>
  /\ pc' = "done"
  /\ UNCHANGED <<observed, program, cores_arg, reduce_overlap, num_cores,
                 feasible_combinations, problems, status, attempts, results,
                 sols, index, region_list, collected_regions, flat, reducer>>

\* lines 59-62, 65-69
ReturnReduced ==
  /\ pc = "classify"
  /\ ~Overlapping(program, reduce_overlap)
  /\ \E out \in ReduceOutcomes(collected_regions) :
       /\ reducer' = Append(reducer, [input |-> collected_regions,
                                      output |-> out])
       /\ collected_regions' = out.regions
       /\ result' = <<ReducedSolution(program, out)>>
  /\ pc' = "done"
  /\ UNCHANGED <<observed, program, cores_arg, reduce_overlap, num_cores,
                 feasible_combinations, problems, status, attempts, results,
                 sols, index, region_list, flat>>

Next ==
  \/ ResolveCores
  \/ Enumerate
  \/ Substitute
  \/ Dispatch
  \/ \E i \in Tasks : WorkerTake(i)
  \/ \E i \in Tasks : WorkerReturn(i)
  \/ \E i \in Tasks : WorkerRaise(i)
  \/ \E i \in Tasks : WorkerStall(i)
  \/ MapReturn
  \/ MapRaise
  \/ AnnotateSolution
  \/ Collect
  \/ ReturnOverlapping
  \/ ReturnReduced

\* the steps of the function and of the workers other than a solve raising
\* or stalling
Progress ==
  \/ ResolveCores
  \/ Enumerate
  \/ Substitute
  \/ Dispatch
  \/ \E i \in Tasks : WorkerTake(i)
  \/ \E i \in Tasks : WorkerReturn(i)
  \/ MapReturn
  \/ AnnotateSolution
  \/ Collect
  \/ ReturnOverlapping
  \/ ReturnReduced

\* The interpreter keeps running the function, a free worker takes the next
\* task, and a solve that neither raises nor stalls returns: while one of
\* these steps is possible, one is taken.
Fairness == WF_vars(Progress)

\* The pool stage reads the feasible assignments and the worker count only.
\* The runs checked for termination fix what it does not read: the layout
\* with two binaries, no quadratic term, a zero H, reduction enabled; the
\* parameter dimension stays free, so that both returns are taken.
FairInit ==
  /\ Init
  /\ Len(program.binary_indices) = 2
  /\ ~program.hasQ
  /\ \A i \in 1..program.num_x : \A j \in 1..program.num_t :
       program.H[i][j] = 0
  /\ reduce_overlap

FairSpec == FairInit /\ [][Next]_vars /\ Fairness

Spec == Init /\ [][Next]_vars

\* ============================================================ claims
Returned == pc = "done"

ReturnedRegions == result[1].critical_regions

\* the rows of H at the continuous indices, entry by entry
ContBlock ==
  {<<program.cont_indices[i], j>> :
     i \in 1..Len(program.cont_indices), j \in 1..program.num_t}

ContBlockNotClose == \E e \in ContBlock : Abs(program.H[e[1]][e[2]]) > Atol

ContBlockAllZero == \A e \in ContBlock : program.H[e[1]][e[2]] = 0

\* parameter dimension > 1, or a quadratic term, or reduction disabled, or a
\* continuous-row block that is not close to zero
ReductionDisqualified ==
  \/ program.num_t > 1
  \/ program.hasQ
  \/ ~reduce_overlap
  \/ ContBlockNotClose

\* dimension 1, no quadratic term, all-zero block, reduction enabled
ReductionEligible ==
  /\ program.num_t = 1
  /\ ~program.hasQ
  /\ reduce_overlap
  /\ ContBlockAllZero

\* C1: every critical region of the returned Solution that the solve of
\* sub-problem i produced carries as y_fixation the assignment A_i that
\* sub-problem i was generated from, whatever the order in which the workers
\* returned.
DispatchOrderPreserved ==
  Returned =>
    \A n \in 1..Len(ReturnedRegions) :
      LET r == ReturnedRegions[n]
      IN  /\ r.y_fixation = feasible_combinations[r.sub]
          /\ r.y_fixation = r.fixed
          /\ problems[r.sub].fixed_bins = feasible_combinations[r.sub]

\* C1 witness: two sub-problems returned out of order, regions of both are
\* in the returned Solution
DispatchOrderWitness ==
  /\ Returned
  /\ out_of_order
  /\ \E a, b \in 1..Len(ReturnedRegions) :
       ReturnedRegions[a].sub # ReturnedRegions[b].sub

\* C2: every critical region of the returned Solution has a y_fixation that
\* is not null and as long as the program has binary indices, and its
\* y_indices and x_indices partition the variable indices, on both return
\* paths.
RegionsAnnotated ==
  Returned =>
    \A n \in 1..Len(ReturnedRegions) :
      LET r == ReturnedRegions[n]
      IN  /\ r.y_fixation # Unset
          /\ Len(r.y_fixation) = Len(program.binary_indices)
          /\ r.y_indices # Unset
          /\ r.x_indices # Unset
          /\ Range(r.y_indices) \cup Range(r.x_indices) = 1..program.num_x
          /\ Range(r.y_indices) \cap Range(r.x_indices) = {}

\* C2 witness: a Solution returned on the reduced path, the reducer having
\* removed a region and kept others
RegionsAnnotatedWitness ==
  /\ Returned
  /\ reducer # <<>>
  /\ Len(ReturnedRegions) >= 2
  /\ Len(ReturnedRegions) < Len(flat)

\* C3: with any one disqualifying signal the returned Solution has
\* is_overlapping = TRUE, its regions are the flattened annotated list, and
\* the 1-D reducer was not called.
DisqualifiedReturnsFlattened ==
  (Returned /\ ReductionDisqualified) =>
    /\ result[1].is_overlapping = TRUE
    /\ ReturnedRegions = flat
    /\ \A n \in 1..Len(flat) : flat[n].writes = 1
    /\ reducer = <<>>

\* C3 witness: the continuous-row block is the only disqualifying signal
DisqualifiedWitness ==
  /\ Returned
  /\ program.num_t = 1 /\ ~program.hasQ /\ reduce_overlap
  /\ ContBlockNotClose
  /\ Len(ReturnedRegions) >= 2

\* C4: with dimension 1, no quadratic term, an all-zero continuous-row block
\* and reduction enabled, the 1-D reducer is called exactly once on the
\* flattened annotated list and the returned Solution has the list and the
\* overlaps_remaining flag the reducer returned.
EligibleReturnsReduced ==
  (Returned /\ ReductionEligible) =>
    /\ Len(reducer) = 1
    /\ reducer[1].input = flat
    /\ ReturnedRegions = reducer[1].output.regions
    /\ result[1].is_overlapping = reducer[1].output.overlaps_remaining

\* C4 witness: the reducer removed a region and reported remaining overlaps
EligibleWitness ==
  /\ Returned
  /\ ReductionEligible
  /\ Len(ReturnedRegions) < Len(flat)
  /\ result[1].is_overlapping = TRUE

\* the number of regions of the solutions before solution i
RECURSIVE Offset(_)
Offset(i) == IF i <= 1 THEN 0 ELSE Offset(i - 1) + Len(sols[i - 1])

\* C10: the flattened sequence holds the regions of solution 1, then those
\* of solution 2, and so on, each solution's regions in the order the solver
\* returned them, every region once and annotated once.
FlattenedSubProblemMajor ==
  pc \in {"classify", "done"} =>
    /\ Len(flat) = Offset(Len(sols) + 1)
    /\ \A i \in 1..Len(sols) :
         /\ Len(sols[i]) = solved[i]
         /\ \A k \in 1..Len(sols[i]) :
              /\ flat[Offset(i) + k] = sols[i][k]
              /\ sols[i][k].k = k
              /\ sols[i][k].sub = i
              /\ sols[i][k].writes = 1

\* C10 witness: two solutions with regions, the first with more than one
FlattenedWitness ==
  /\ pc = "classify"
  /\ Len(sols) >= 2
  /\ Len(sols[1]) >= 2
  /\ Len(sols[2]) >= 1

\* the region list a single worker produces: the tasks solved and filed one
\* after the other, in the order of the feasible assignments
RECURSIVE SerialRegions(_)
SerialRegions(i) ==
  IF i = 0 THEN <<>>
  ELSE SerialRegions(i - 1) \o
       [k \in 1..solved[i] |->
          [sub |-> i, fixed |-> program.leaves[i], k |-> k,
           y_fixation |-> program.leaves[i],
           y_indices |-> program.binary_indices,
           x_indices |-> program.cont_indices,
           writes |-> 1]]

\* C6: the returned Solution is the one a single worker produces from the
\* same program, options and solves: its regions (or, on the reduced path,
\* the list handed to the reducer) are the serial list, and which path is
\* taken depends on the program and reduce_overlap alone; neither the worker
\* count nor the order in which the workers return enters.
ResultIndependentOfPool ==
  Returned =>
    LET serial == SerialRegions(Len(program.leaves))
    IN  IF Overlapping(program, reduce_overlap)
          THEN /\ reducer = <<>>
               /\ result[1] = Solution(program, serial, TRUE)
          ELSE /\ Len(reducer) = 1
               /\ reducer[1].input = serial
               /\ result[1] = Solution(program, reducer[1].output.regions,
                                       reducer[1].output.overlaps_remaining)

\* C6 witness: the sentinel resolved to more than one worker, two solves
\* returned out of order, and the Solution has regions
ResultIndependentWitness ==
  /\ Returned
  /\ cores_arg = AutoCores
  /\ num_cores > 1
  /\ out_of_order
  /\ Len(ReturnedRegions) >= 2

\* C7: once a solve has failed there is no Solution, no annotation and no
\* reduction, the function is still inside pool.map or has left by the
\* failure, and no task is taken a second time.
FailureAbortsDispatch ==
  (\E i \in 1..Len(status) : status[i] = "failed") =>
    /\ pc \in {"map", "failed"}
    /\ result = <<>>
    /\ sols = <<>>
    /\ region_list = <<>>
    /\ reducer = <<>>
    /\ \A i \in 1..Len(status) :
         /\ attempts[i] <= 1
         /\ \A k \in 1..Len(results[i]) : results[i][k].writes = 0

\* C7 witness: the function has left by the failure of one solve while
\* another solve had returned regions
FailureAbortsWitness ==
  /\ pc = "failed"
  /\ \E i, j \in 1..Len(status) :
       /\ status[i] = "failed"
       /\ status[j] = "done"
       /\ Len(results[j]) >= 1

\* C8: no task exists before enumeration and substitution are complete, and
\* while the function annotates, classifies or has returned, every task has
\* returned and no worker is running.
StagesInOrder ==
  /\ pc \in {"start", "tree", "substitute", "pool"} =>
       status = <<>> /\ sols = <<>> /\ result = <<>>
  /\ status # <<>> =>
       /\ feasible_combinations = program.leaves
       /\ Len(problems) = Len(feasible_combinations)
       /\ Len(status) = Len(problems)
       /\ \A i \in 1..Len(problems) :
            problems[i].fixed_bins = feasible_combinations[i]
  /\ (pc \in {"annotate", "classify", "done"} \/ region_list # <<>>
        \/ result # <<>>) =>
       \A i \in 1..Len(status) : status[i] = "done"
  /\ result # <<>> => pc = "done" /\ index = Len(sols) + 1

\* C8 witness: annotation is under way after solves that returned out of
\* order
StagesInOrderWitness ==
  /\ pc = "annotate"
  /\ index = 2
  /\ Len(sols) >= 2
  /\ out_of_order

NoSolveStallsOrFails ==
  \A i \in 1..Len(status) : status[i] \notin {"hung", "failed"}

SomeSolveStalled == \E i \in 1..Len(status) : status[i] = "hung"

\* C9: under fair scheduling, if no solve stalls or fails the function
\* eventually returns a Solution, whatever the pool size; a stalled solve
\* stays stalled, and while a solve is stalled no Solution is returned.
DispatchTerminates ==
  /\ ([]NoSolveStallsOrFails) => <>Returned
  /\ [][\A i \in 1..Len(status) :
         status[i] = "hung" => status'[i] = "hung"]_vars
  /\ [](SomeSolveStalled => (~Returned /\ result = <<>>))

\* C9 witness: a Solution returned from a pool smaller than the number of
\* sub-problems
DispatchTerminatesWitness ==
  /\ Returned
  /\ num_cores < Len(problems)

\* C5 as stated: with no feasible combination the returned Solution has an
\* empty region list and is_overlapping = FALSE, whatever the signals are.
EmptyResultNeverOverlapping ==
  (Returned /\ program.leaves = <<>>) =>
    /\ ReturnedRegions = <<>>
    /\ result[1].is_overlapping = FALSE

\* C5 amended: with no feasible combination the function does not leave by a
\* failure, and the returned Solution has an empty region list; its
\* is_overlapping is TRUE with a disqualifying signal, and is the reducer's
\* flag for the empty list when the program is eligible for reduction.
EmptyResultFollowsSignals ==
  program.leaves = <<>> =>
    /\ pc # "failed"
    /\ Returned =>
         /\ ReturnedRegions = <<>>
         /\ ReductionDisqualified => result[1].is_overlapping = TRUE
         /\ ReductionEligible =>
              /\ Len(reducer) = 1
              /\ reducer[1].input = <<>>
              /\ result[1].is_overlapping =
                   reducer[1].output.overlaps_remaining

\* C5 witness: no feasible combination, a disqualifying signal, a Solution
\* returned with is_overlapping = TRUE
EmptyResultWitness ==
  /\ Returned
  /\ program.leaves = <<>>
  /\ ReductionDisqualified
  /\ ReturnedRegions = <<>>
  /\ result[1].is_overlapping = TRUE

====
